---- MODULE Spec2Model ----
(***************************************************************************)
(* A model of utils/parse_md.js: the markdown normalizer, the tree         *)
(* builder, the renderer with its word wrap, clone, the template expander  *)
(* and the argument parser.                                                *)
(*                                                                         *)
(* JavaScript strings are TLA+ strings (TLC evaluates Len, SubSeq and \o   *)
(* on them).  A TLA+ string literal cannot hold the backquote character,   *)
(* so BT stands for it everywhere.  JavaScript objects live in a heap:     *)
(* `nodes` is the sequence of node objects (a reference is an index) and   *)
(* `arrs` the sequence of `lines` arrays, so that two nodes may hold the   *)
(* same array.  A `children` array is never shared by two nodes in         *)
(* parse_md.js (map and filter always build a fresh one), so it is a field *)
(* of its node.                                                            *)
(***************************************************************************)
EXTENDS Integers, Sequences, FiniteSets, TLC

\* ------------------------------------------------------------------------
\* Strings, as JavaScript's String methods compute them (0-based indices).

BT == "'"
Fence == BT \o BT \o BT
GenMarker == "<!-- GEN"

Min(S) == CHOOSE m \in S : \A n \in S : m <= n
Max(S) == CHOOSE m \in S : \A n \in S : m >= n

Clamp(k, n) == IF k < 0 THEN 0 ELSE IF k > n THEN n ELSE k

\* s.substring(a, b)
Substring(s, a, b) ==
  LET a1 == Clamp(a, Len(s))
      b1 == Clamp(b, Len(s))
  IN SubSeq(s, Min({a1, b1}) + 1, Max({a1, b1}))

\* s.substring(a)
SubstringFrom(s, a) == Substring(s, a, Len(s))

\* s.charAt(k)
CharAt(s, k) == Substring(s, k, k + 1)

\* s.startsWith(p)
StartsWith(s, p) == Len(s) >= Len(p) /\ Substring(s, 0, Len(p)) = p

\* s.indexOf(p, from): -1 when p does not occur at or after from
IndexOf(s, p, from) ==
  LET hits == {k \in Clamp(from, Len(s))..(Len(s) - Len(p)) : Substring(s, k, k + Len(p)) = p}
  IN IF hits = {} THEN -1 ELSE Min(hits)

\* s.lastIndexOf(p, from): -1 when p does not occur at or before from
LastIndexOf(s, p, from) ==
  LET hits == {k \in 0..Min({Clamp(from, Len(s)), Len(s) - Len(p)}) : Substring(s, k, k + Len(p)) = p}
  IN IF hits = {} THEN -1 ELSE Max(hits)

\* s.includes(p)
Includes(s, p) == IndexOf(s, p, 0) # -1

\* what \s matches and trim() strips
IsWs(c) == c \in {" ", "\t", "\r", "\n"}

\* the length of the leading run of whitespace
LeadingWs(s) ==
  LET solid == {k \in 0..(Len(s) - 1) : ~IsWs(CharAt(s, k))}
  IN IF solid = {} THEN Len(s) ELSE Min(solid)

\* s.trim()
Trim(s) ==
  LET solid == {k \in 0..(Len(s) - 1) : ~IsWs(CharAt(s, k))}
  IN IF solid = {} THEN "" ELSE Substring(s, Min(solid), Max(solid) + 1)

\* the length of the leading run of '#': what /^(#+)/ captures
LeadingHashes(s) ==
  LET other == {k \in 0..(Len(s) - 1) : CharAt(s, k) # "#"}
  IN IF other = {} THEN Len(s) ELSE Min(other)

RECURSIVE Split(_, _)
\* s.split(sep), sep not empty
Split(s, sep) ==
  LET k == IndexOf(s, sep, 0)
  IN IF k = -1 THEN <<s>>
     ELSE <<Substring(s, 0, k)>> \o Split(SubstringFrom(s, k + Len(sep)), sep)

RECURSIVE Join(_, _)
\* parts.join(sep)
Join(parts, sep) ==
  IF parts = <<>> THEN ""
  ELSE IF Len(parts) = 1 THEN parts[1]
  ELSE parts[1] \o sep \o Join(Tail(parts), sep)

\* c.repeat(n)
RECURSIVE Repeat(_, _)
Repeat(c, n) == IF n <= 0 THEN "" ELSE c \o Repeat(c, n - 1)

Digits == <<"0", "1", "2", "3", "4", "5", "6", "7", "8", "9">>

RECURSIVE ToNumber(_)
\* +s, for a string of decimal digits
ToNumber(s) ==
  IF s = "" THEN 0
  ELSE LET d == CHOOSE k \in 1..10 : Digits[k] = CharAt(s, Len(s) - 1)
       IN 10 * ToNumber(Substring(s, 0, Len(s) - 1)) + (d - 1)

\* ------------------------------------------------------------------------
\* normalizeLines

NormStep(st, line) ==
  LET trimmedLine == Trim(line)
      singleLineExpression == StartsWith(line, "#")
      isFence == StartsWith(line, Fence)
      inCodeBlock == IF isFence THEN ~st.inCodeBlock ELSE st.inCodeBlock
      flushParagraph ==
        \/ trimmedLine = ""
        \/ StartsWith(trimmedLine, "1.")
        \/ StartsWith(trimmedLine, "<")
        \/ StartsWith(trimmedLine, ">")
        \/ StartsWith(trimmedLine, "-")
        \/ StartsWith(trimmedLine, "*")
        \/ singleLineExpression
        \/ isFence
      flushed == flushParagraph /\ st.outLineTokens # <<>>
      outLines == IF flushed THEN Append(st.outLines, Join(st.outLineTokens, " "))
                  ELSE st.outLines
      outLineTokens == IF flushed THEN <<>> ELSE st.outLineTokens
  IN IF inCodeBlock \/ singleLineExpression
     THEN [inCodeBlock |-> inCodeBlock, outLines |-> Append(outLines, line),
           outLineTokens |-> outLineTokens]
     ELSE IF trimmedLine # ""
     THEN [inCodeBlock |-> inCodeBlock, outLines |-> outLines,
           outLineTokens |-> Append(outLineTokens,
                                    IF StartsWith(trimmedLine, "-") THEN line ELSE trimmedLine)]
     ELSE [inCodeBlock |-> inCodeBlock, outLines |-> outLines, outLineTokens |-> outLineTokens]

RECURSIVE NormLoop(_, _, _)
NormLoop(st, inLines, k) ==
  IF k > Len(inLines) THEN st ELSE NormLoop(NormStep(st, inLines[k]), inLines, k + 1)

NormalizeLines(content) ==
  LET inLines == Split(Join(Split(content, "\r\n"), "\n"), "\n")
      st == NormLoop([inCodeBlock |-> FALSE, outLines |-> <<>>, outLineTokens |-> <<>>],
                     inLines, 1)
  IN IF st.outLineTokens # <<>> THEN Append(st.outLines, Join(st.outLineTokens, " "))
     ELSE st.outLines

\* ------------------------------------------------------------------------
\* Node objects.  hasKids says whether the object has a children field; lines
\* is a reference into arrs (0: no lines field); a field the object does not
\* have is "" (undefined and "" are both falsy where the code tests them).

MkNode(type, text, hasKids, liType, codeLang, lines) ==
  [type |-> type, text |-> text, hasKids |-> hasKids, kids |-> <<>>,
   liType |-> liType, codeLang |-> codeLang, lines |-> lines]

EmptyHeap == [nodes |-> <<>>, arrs |-> <<>>]

\* parent.children.push(child)
PushChild(nodes, parent, child) ==
  [nodes EXCEPT ![parent].kids = Append(@, child), ![parent].hasKids = TRUE]

\* +node.type.substring(1)
HeaderDepth(node) == ToNumber(SubstringFrom(node.type, 1))

\* ------------------------------------------------------------------------
\* buildTree.  The state of the scan: the heap, the root, stack (stack[0] is
\* Head), liStack (liNull: it is still null), and where the scan is: mode
\* "top", or inside the inner loop of a code or generator block whose node is
\* cur.  err: the scan threw.

StartBuild(heap) ==
  LET root == Len(heap.nodes) + 1
  IN [nodes |-> Append(heap.nodes, MkNode("h0", "", TRUE, "", "", 0)),
      arrs |-> heap.arrs, root |-> root, stack |-> <<root>>,
      liStack |-> <<>>, liNull |-> TRUE, mode |-> "top", cur |-> 0, err |-> FALSE]

RECURSIVE PopHeadersStrict(_, _, _)
\* PopHeaders closing only the headers that are deeper: h < lastH for h <= lastH
PopHeadersStrict(nodes, stack, h) ==
  IF stack = <<>> THEN stack
  ELSE IF h < HeaderDepth(nodes[Head(stack)]) THEN PopHeadersStrict(nodes, Tail(stack), h)
  ELSE stack

RECURSIVE PopHeaders(_, _, _)
\* while (true) { if (h <= lastH) stack.shift(); else break; }
PopHeaders(nodes, stack, h) ==
  IF stack = <<>> THEN stack
  ELSE IF h <= HeaderDepth(nodes[Head(stack)]) THEN PopHeaders(nodes, Tail(stack), h)
  ELSE stack

CodeOpen(ps, line) ==
  LET id == Len(ps.nodes) + 1
      arr == Len(ps.arrs) + 1
      node == MkNode("code", "", FALSE, "", SubstringFrom(line, 3), arr)
  IN [ps EXCEPT !.nodes = PushChild(Append(ps.nodes, node), Head(ps.stack), id),
                !.arrs = Append(ps.arrs, <<>>),
                !.mode = "code", !.cur = id]

GenOpen(ps, line) ==
  LET id == Len(ps.nodes) + 1
      arr == Len(ps.arrs) + 1
      node == MkNode("gen", "", FALSE, "", "", arr)
  IN [ps EXCEPT !.nodes = PushChild(Append(ps.nodes, node), Head(ps.stack), id),
                !.arrs = Append(ps.arrs, <<line>>),
                !.mode = "gen", !.cur = id]

\* one turn of the inner loop of a code block: the closing fence ends it
CodeLine(ps, line) ==
  IF StartsWith(line, Fence) THEN [ps EXCEPT !.mode = "top", !.cur = 0]
  ELSE [ps EXCEPT !.arrs[ps.nodes[ps.cur].lines] = Append(@, line)]

\* one turn of the inner loop of a generator block: the closing marker is kept
GenLine(ps, line) ==
  IF StartsWith(line, GenMarker)
  THEN [ps EXCEPT !.arrs[ps.nodes[ps.cur].lines] = Append(@, line), !.mode = "top", !.cur = 0]
  ELSE [ps EXCEPT !.arrs[ps.nodes[ps.cur].lines] = Append(@, line)]

\* HeaderLine keeping the list context of the header before: liStack[0] = node
\* for liStack = [node]
HeaderLineKeepsList(ps, line) ==
  LET h == LeadingHashes(line)
      id == Len(ps.nodes) + 1
      node == MkNode("h" \o ToString(h), SubstringFrom(line, h + 1), TRUE, "", "", 0)
      stack == PopHeaders(ps.nodes, ps.stack, h)
  IN IF stack = <<>> THEN [ps EXCEPT !.err = TRUE]
     ELSE [ps EXCEPT !.nodes = PushChild(Append(ps.nodes, node), Head(stack), id),
                     !.stack = <<id>> \o stack,
                     !.liStack = IF ps.liNull THEN <<id>> ELSE [ps.liStack EXCEPT ![1] = id],
                     !.liNull = FALSE]

HeaderLine(ps, line) ==
  LET h == LeadingHashes(line)
      id == Len(ps.nodes) + 1
      node == MkNode("h" \o ToString(h), SubstringFrom(line, h + 1), TRUE, "", "", 0)
      stack == PopHeaders(ps.nodes, ps.stack, h)
  IN IF stack = <<>> THEN [ps EXCEPT !.err = TRUE]
     ELSE [ps EXCEPT !.nodes = PushChild(Append(ps.nodes, node), Head(stack), id),
                     !.stack = <<id>> \o stack,
                     !.liStack = <<id>>, !.liNull = FALSE]

\* the length of what /^(\s*)(-|1.|\*) / matches after the whitespace, 0 when
\* the line does not match
ListMarker(line) ==
  LET rest == SubstringFrom(line, LeadingWs(line))
  IN IF StartsWith(rest, "- ") \/ StartsWith(rest, "* ") THEN 2
     ELSE IF /\ StartsWith(rest, "1")
             /\ Len(rest) >= 3
             /\ CharAt(rest, 1) \notin {"\n", "\r"}
             /\ CharAt(rest, 2) = " " THEN 3
     ELSE 0

LiType(line) ==
  IF StartsWith(Trim(line), "1.") THEN "ordinal"
  ELSE IF StartsWith(Trim(line), "*") THEN "bullet"
  ELSE "default"

\* a list item or a text line.  depth = list[1].length / 2 is a fraction for
\* an odd indentation, and liStack has no such element.
ItemLine(ps, line) ==
  LET marker == ListMarker(line)
      isList == marker > 0
      spaces == IF isList THEN LeadingWs(line) ELSE 0
      depth == spaces \div 2
      id == Len(ps.nodes) + 1
      node == IF isList
              THEN MkNode("li", SubstringFrom(line, spaces + marker), FALSE, LiType(line), "", 0)
              ELSE MkNode("text", line, FALSE, "", "", 0)
  IN IF ps.liNull \/ spaces % 2 # 0 \/ depth >= Len(ps.liStack)
     THEN [ps EXCEPT !.err = TRUE]
     ELSE [ps EXCEPT !.nodes = PushChild(Append(ps.nodes, node), ps.liStack[depth + 1], id),
                     !.liStack = IF depth + 2 <= Len(ps.liStack)
                                 THEN [ps.liStack EXCEPT ![depth + 2] = id]
                                 ELSE Append(ps.liStack, id)]

\* the scan of one logical line
BuildStep(ps, line) ==
  IF ps.err THEN ps
  ELSE IF ps.mode = "code" THEN CodeLine(ps, line)
  ELSE IF ps.mode = "gen" THEN GenLine(ps, line)
  ELSE IF StartsWith(line, Fence) THEN CodeOpen(ps, line)
  ELSE IF StartsWith(line, GenMarker) THEN GenOpen(ps, line)
  ELSE IF LeadingHashes(line) > 0 THEN HeaderLine(ps, line)
  ELSE ItemLine(ps, line)

\* the end of the lines: inside a block, line = lines[++i] is undefined and
\* line.startsWith throws
BuildEnd(ps) == IF ps.mode # "top" THEN [ps EXCEPT !.err = TRUE] ELSE ps

\* what a scan that threw threw: buildTree has no throw statement, its only
\* errors are the TypeErrors of reading a property of null or undefined
\* (liStack[depth].children, line.startsWith)
Thrown(ps) == IF ps.err THEN "TypeError" ELSE ""

RECURSIVE BuildLoop(_, _, _)
BuildLoop(ps, lines, k) ==
  IF k > Len(lines) THEN BuildEnd(ps) ELSE BuildLoop(BuildStep(ps, lines[k]), lines, k + 1)

\* buildTree(lines), allocating in heap; the forest is nodes[root].kids
BuildTree(heap, lines) == BuildLoop(StartBuild(heap), lines, 1)

\* parseMd(content)
ParseMd(heap, content) == BuildTree(heap, NormalizeLines(content))

\* ------------------------------------------------------------------------
\* renderMd

DefaultMaxColumns == 120

\* newLine()
NewLine(result) ==
  IF result # <<>> /\ result[Len(result)] = "" THEN result ELSE Append(result, "")

\* WrapIndex looking back from one column further
WrapIndexWide(line, maxColumns) ==
  LET index == LastIndexOf(line, " ", maxColumns + 1)
  IN IF index = -1 THEN IndexOf(line, " ", maxColumns) ELSE index

\* where printText breaks a line longer than maxColumns; -1: nowhere
WrapIndex(line, maxColumns) ==
  LET index == LastIndexOf(line, " ", maxColumns)
  IN IF index = -1 THEN IndexOf(line, " ", maxColumns) ELSE index

RECURSIVE PrintLoop(_, _, _)
PrintLoop(line, result, maxColumns) ==
  IF Len(line) > maxColumns /\ WrapIndex(line, maxColumns) # -1
  THEN LET index == WrapIndex(line, maxColumns)
       IN PrintLoop(SubstringFrom(line, index + 1),
                    Append(result, Substring(line, 0, index)), maxColumns)
  ELSE IF Len(line) > 0 THEN Append(result, line) ELSE result

\* printText(node, result, maxColumns)
PrintText(node, result, maxColumns) == PrintLoop(node.text, result, maxColumns)

LiChar(node) ==
  CASE node.liType = "bullet" -> "*"
    [] node.liType = "default" -> "-"
    [] node.liType = "ordinal" -> "1."
    [] OTHER -> "undefined"

RECURSIVE VisitLi(_, _, _, _)
RECURSIVE VisitLiKids(_, _, _, _, _)
\* the visit closure of the 'li' branch
VisitLi(heap, id, indent, result) ==
  LET node == heap.nodes[id]
  IN VisitLiKids(heap, node.kids, 1, indent \o "  ",
                 Append(result, indent \o LiChar(node) \o " " \o node.text))

VisitLiKids(heap, kids, k, indent, result) ==
  IF k > Len(kids) THEN result
  ELSE VisitLiKids(heap, kids, k + 1, indent, VisitLi(heap, kids[k], indent, result))

RECURSIVE InnerRenderMdNode(_, _, _, _, _)
RECURSIVE RenderNodes(_, _, _, _, _, _)
\* innerRenderMdNode(node, lastNode, result, maxColumns); last = 0: undefined
InnerRenderMdNode(heap, id, last, result, maxColumns) ==
  LET node == heap.nodes[id]
  IN IF StartsWith(node.type, "h")
     THEN RenderNodes(heap, node.kids, 1, id,
                      Append(NewLine(result),
                             Repeat("#", HeaderDepth(node)) \o " " \o node.text),
                      maxColumns)
     ELSE IF node.type = "text"
     THEN LET bothComments == /\ StartsWith(node.text, ">")
                              /\ last # 0
                              /\ heap.nodes[last].type = "text"
                              /\ StartsWith(heap.nodes[last].text, ">")
              sep == ~bothComments /\ last # 0 /\ heap.nodes[last].text # ""
          IN PrintText(node, IF sep THEN NewLine(result) ELSE result, maxColumns)
     ELSE IF node.type = "code"
     THEN NewLine(Append(Append(NewLine(result), Fence \o node.codeLang)
                         \o heap.arrs[node.lines], Fence))
     ELSE IF node.type = "gen"
     THEN NewLine(NewLine(result) \o heap.arrs[node.lines])
     ELSE IF node.type = "li"
     THEN VisitLi(heap, id, "", result)
     ELSE result

\* for (const child of children) { innerRenderMdNode(child, lastNode, ...); lastNode = child; }
RenderNodes(heap, kids, k, last, result, maxColumns) ==
  IF k > Len(kids) THEN result
  ELSE RenderNodes(heap, kids, k + 1, kids[k],
                   InnerRenderMdNode(heap, kids[k], last, result, maxColumns), maxColumns)

\* renderMd(nodes, maxColumns); columns = <<>>: the argument is not given
RenderMd(heap, nodes, columns) ==
  LET maxColumns == IF columns = <<>> THEN DefaultMaxColumns ELSE columns[1]
  IN Join(RenderNodes(heap, nodes, 1, 0, <<>>, maxColumns), "\n")

\* ------------------------------------------------------------------------
\* parseArgument.  The result: err is "" and name, type, text are what is
\* returned, or err is the message of the Error thrown.

\* what (.*) matches: up to the first line terminator
DotStar(s) ==
  LET ends == {k \in 0..(Len(s) - 1) : CharAt(s, k) \in {"\n", "\r"}}
  IN IF ends = {} THEN s ELSE Substring(s, 0, Min(ends))

\* the three patterns tried in turn: <<>> when none matches, else <<name, remainder>>
ArgMatch(line) ==
  LET close == IndexOf(line, BT, 1)
  IN IF StartsWith(line, BT) /\ close >= 2 /\ CharAt(line, close + 1) = " "
     THEN <<Substring(line, 1, close), DotStar(SubstringFrom(line, close + 2))>>
     ELSE IF StartsWith(line, "returns: ")
     THEN <<"returns", DotStar(SubstringFrom(line, 9))>>
     ELSE IF StartsWith(line, "type: ")
     THEN <<"type", DotStar(SubstringFrom(line, 6))>>
     ELSE <<>>

RECURSIVE FirstClose(_, _, _)
\* FindClose stopping at the first '>' whatever the depth
FirstClose(remainder, k, depth) ==
  IF k >= Len(remainder) THEN -1
  ELSE IF CharAt(remainder, k) = ">" THEN k
  ELSE FirstClose(remainder, k + 1, depth)

RECURSIVE FindClose(_, _, _)
\* the for loop: the index at which depth is back to 0, -1 when the loop ends
FindClose(remainder, k, depth) ==
  IF k >= Len(remainder) THEN -1
  ELSE LET c == CharAt(remainder, k)
           d == depth + (IF c = "<" THEN 1 ELSE 0) - (IF c = ">" THEN 1 ELSE 0)
       IN IF d = 0 THEN k ELSE FindClose(remainder, k + 1, d)

ArgError(msg) == [err |-> msg, name |-> "", type |-> "", text |-> ""]

\* the scan for the closing bracket at k (-1: the loop ended), and the return
ArgReturn(name, remainder, k) ==
  IF ~StartsWith(remainder, "<") THEN ArgError("Bad argument")
  ELSE IF k = -1 THEN ArgError("Should not be reached")
  ELSE [err |-> "", name |-> name, type |-> Substring(remainder, 1, k),
        text |-> SubstringFrom(remainder, k + 2)]

ArgMatched(match) ==
  IF match = <<>> THEN ArgError("Invalid argument")
  ELSE ArgReturn(match[1], match[2], FindClose(match[2], 0, 0))

ParseArgument(line) == ArgMatched(ArgMatch(line))

\* ------------------------------------------------------------------------
\* clone.  { ...node } copies the fields, the reference to the lines array
\* among them; children is a new array of the clones.

RECURSIVE Clone(_, _)
RECURSIVE CloneAll(_, _, _, _)
\* [heap, id]: the heap with the copy in it, and the copy
Clone(heap, id) ==
  LET node == heap.nodes[id]
      made == CloneAll(heap, node.kids, 1, <<>>)
      copy == [node EXCEPT !.kids = made.ids]
  IN [heap |-> [made.heap EXCEPT !.nodes = Append(@, copy)],
      id |-> Len(made.heap.nodes) + 1]

\* CloneAll handing out the children themselves: children.map(c => c)
ShareAll(heap, kids, k, ids) == [heap |-> heap, ids |-> kids]

\* children.map(c => clone(c)): [heap, ids]
CloneAll(heap, kids, k, ids) ==
  IF k > Len(kids) THEN [heap |-> heap, ids |-> ids]
  ELSE LET one == Clone(heap, kids[k])
       IN CloneAll(one.heap, kids, k + 1, Append(ids, one.id))

\* ------------------------------------------------------------------------
\* applyTemplates.  The state of the pass: the heap, and err: "" or the kind
\* of the error thrown ("Bad template", "TypeError", or parseArgument's).

FanOutMark == "-inline- = %%"
FanOutSep == "-inline- = "
SubstMark == " = %%"
SubstSep == " = "

IsFanOut(node) == node.text # "" /\ Includes(node.text, FanOutMark)
IsSubst(node) == node.text # "" /\ ~Includes(node.text, FanOutMark) /\ Includes(node.text, SubstMark)

\* paramsMap.get(key): the last node of params under that key, 0 when none
ParamsGet(heap, params, key) ==
  LET hits == {k \in 1..Len(params) : "%%-" \o heap.nodes[params[k]].text \o "-%%" = key}
  IN IF hits = {} THEN 0 ELSE params[Max(hits)]

Throw(t, msg) == [t EXCEPT !.err = msg]

\* parent.children.push({ type: node.type, text: name + argName, children: made })
FanOutPush(t, id, parent, argName, made) ==
  [t EXCEPT !.nodes = PushChild(
                        Append(made.heap.nodes,
                               [MkNode(t.nodes[id].type,
                                       Split(t.nodes[id].text, FanOutSep)[1] \o argName,
                                       TRUE, "", "", 0)
                                EXCEPT !.kids = made.ids]),
                        parent, Len(made.heap.nodes) + 1),
            !.arrs = made.heap.arrs]

\* the body of the loop from parseArgument's result on
FanOutArg(t, id, parent, template, arg) ==
  IF arg.err # "" THEN Throw(t, arg.err)
  ELSE IF parent = 0 THEN Throw(t, "TypeError")
  ELSE FanOutPush(t, id, parent, arg.name,
                  CloneAll([nodes |-> t.nodes, arrs |-> t.arrs], t.nodes[template].kids, 1, <<>>))

\* the body of the loop for the template found (0: none)
FanOutOne(t, id, parent, template) ==
  IF template = 0 THEN Throw(t, "Bad template")
  ELSE IF ~t.nodes[template].hasKids \/ t.nodes[template].kids = <<>> THEN Throw(t, "TypeError")
  ELSE FanOutArg(t, id, parent, template,
                 ParseArgument(t.nodes[t.nodes[template].kids[1]].text))

RECURSIVE FanOutLoop(_, _, _, _, _, _)
\* for (const prop of list.children) { ... }
FanOutLoop(t, params, id, parent, props, k) ==
  IF k > Len(props) \/ t.err # "" THEN t
  ELSE FanOutLoop(FanOutOne(t, id, parent, ParamsGet(t, params, t.nodes[props[k]].text)),
                  params, id, parent, props, k + 1)

FanOutList(t, params, id, parent, list) ==
  IF list = 0 THEN Throw(t, "Bad template")
  ELSE IF ~t.nodes[list].hasKids THEN Throw(t, "TypeError")
  ELSE FanOutLoop(t, params, id, parent, t.nodes[list].kids, 1)

\* the branch of a text holding '-inline- = %%'
FanOut(t, params, id, parent) ==
  FanOutList(t, params, id, parent,
             ParamsGet(t, params, Split(t.nodes[id].text, FanOutSep)[2]))

\* node.children.push(...template.children.map(c => clone(c)))
SubstPush(t, id, made) ==
  [t EXCEPT !.nodes = [made.heap.nodes EXCEPT ![id].kids = @ \o made.ids],
            !.arrs = made.heap.arrs]

\* SubstTemplate passing over a key that params does not hold
SubstTemplateLenient(t, id, template) ==
  IF template = 0 THEN t
  ELSE IF ~t.nodes[id].hasKids \/ ~t.nodes[template].hasKids THEN Throw(t, "TypeError")
  ELSE SubstPush(t, id, CloneAll([nodes |-> t.nodes, arrs |-> t.arrs],
                                 t.nodes[template].kids, 1, <<>>))

\* the branch from the lookup on; t holds the node renamed
SubstTemplate(t, id, template) ==
  IF template = 0 THEN Throw(t, "Bad template")
  ELSE IF ~t.nodes[id].hasKids \/ ~t.nodes[template].hasKids THEN Throw(t, "TypeError")
  ELSE SubstPush(t, id, CloneAll([nodes |-> t.nodes, arrs |-> t.arrs],
                                 t.nodes[template].kids, 1, <<>>))

SubstParts(t, params, id, parts) ==
  SubstTemplate([t EXCEPT !.nodes[id].text = parts[1]], id, ParamsGet(t, params, parts[2]))

\* the branch of a text holding ' = %%'
Substitute(t, params, id) == SubstParts(t, params, id, Split(t.nodes[id].text, SubstSep))

\* children.filter(child => !child.text || !child.text.includes('-inline- = %%'))
RECURSIVE FilterKids(_, _)
FilterKids(nodes, kids) ==
  IF kids = <<>> THEN <<>>
  ELSE IF IsFanOut(nodes[Head(kids)]) THEN FilterKids(nodes, Tail(kids))
  ELSE <<Head(kids)>> \o FilterKids(nodes, Tail(kids))

\* the two branches of visit
VisitNode(t, params, id, parent) ==
  IF IsFanOut(t.nodes[id]) THEN FanOut(t, params, id, parent)
  ELSE IF IsSubst(t.nodes[id]) THEN Substitute(t, params, id)
  ELSE t

\* if (node.children) node.children = node.children.filter(...)
VisitFilter(t, id) ==
  IF t.err # "" \/ ~t.nodes[id].hasKids THEN t
  ELSE [t EXCEPT !.nodes[id].kids = FilterKids(t.nodes, @)]

RECURSIVE Visit(_, _, _, _)
RECURSIVE VisitKids(_, _, _, _)
\* visit(node, parent); parent = 0: null
Visit(t, params, id, parent) ==
  VisitFilter(VisitKids(VisitNode(t, params, id, parent), params, id, 1), id)

\* for (const child of node.children || []) visit(child, node): the array is
\* read anew at every turn, so what a child's visit pushes onto it is visited
VisitKids(t, params, id, k) ==
  IF t.err # "" \/ k > Len(t.nodes[id].kids) THEN t
  ELSE VisitKids(Visit(t, params, t.nodes[id].kids[k], id), params, id, k + 1)

RECURSIVE VisitBody(_, _, _, _)
\* for (const node of body) visit(node, null)
VisitBody(t, params, body, k) ==
  IF t.err # "" \/ k > Len(body) THEN t
  ELSE VisitBody(Visit(t, params, body[k], 0), params, body, k + 1)

\* applyTemplates(body, params): the heap after the call, and err
ApplyTemplates(heap, body, params) ==
  VisitBody([nodes |-> heap.nodes, arrs |-> heap.arrs, err |-> ""], params, body, 1)

\* ------------------------------------------------------------------------
\* The structure of a tree: kinds, text and nesting, without identity.

RECURSIVE Tree(_, _)
Tree(heap, id) ==
  LET node == heap.nodes[id]
  IN [type |-> node.type, text |-> node.text, liType |-> node.liType,
      codeLang |-> node.codeLang,
      lines |-> IF node.lines = 0 THEN <<>> ELSE heap.arrs[node.lines],
      children |-> [k \in 1..Len(node.kids) |-> Tree(heap, node.kids[k])]]

Forest(heap, ids) == [k \in 1..Len(ids) |-> Tree(heap, ids[k])]

\* ------------------------------------------------------------------------
\* doclint/check_public_api/missingDocs.js: lint.  The documentation model
\* (mdBuilder's) and the inventory of the sources (listMethods') are given:
\* doc[c] says whether class c is documented and, per member name, the
\* member ("none": not documented); src[c] says whether the sources export
\* class c and, per member name, whether it is there and its parameters.
\* Maps and Sets are walked in the order of ClassOrder, MemberOrder and
\* ParamOrder.

ClassOrder == <<"A", "B">>
MemberOrder == <<"m", "n">>
ParamOrder == <<"p", "options">>

\* the elements of S in the order of order
SeqOf(S, order) == SelectSeq(order, LAMBDA x : x \in S)

MissingMessage(path) == "Missing documentation for \"" \o path \o "\""
NotFoundInMessage(path) == "Documented \"" \o path \o "\" not found in sources"
NotFoundIsMessage(path) == "Documented \"" \o path \o "\" not found is sources"

\* errors.push(Message.error(text))
PushError(st, text) == [st EXCEPT !.errors = Append(@, text)]

\* paramsForMember(member): an Array, [], for a member that is no method,
\* else the Set of the names of its arguments, with 'options'
ParamsForMember(member) ==
  IF member.kind # "method" THEN [isSet |-> FALSE, names |-> {}]
  ELSE [isSet |-> TRUE,
        names |-> member.args \cup (IF member.options THEN {"options"} ELSE {})]

RECURSIVE MissingParams(_, _, _, _, _)
\* for (const paramName of params) if (!memberParams.has(paramName)) ...:
\* an Array has no method has, and the call of undefined throws
MissingParams(st, path, params, memberParams, k) ==
  IF st.thrown \/ k > Len(params) THEN st
  ELSE IF ~memberParams.isSet THEN [st EXCEPT !.thrown = TRUE]
  ELSE MissingParams(IF params[k] \in memberParams.names THEN st
                     ELSE PushError(st, MissingMessage(path \o "." \o params[k])),
                     path, params, memberParams, k + 1)

\* the body of the loop over the methods of a class of the sources
MissingMethod(st, doc, src, c, m) ==
  IF doc[c].members[m].kind = "none"
  THEN PushError(st, MissingMessage(c \o "." \o m))
  ELSE MissingParams(st, c \o "." \o m, SeqOf(src[c].methods[m].params, ParamOrder),
                     ParamsForMember(doc[c].members[m]), 1)

RECURSIVE MissingMethods(_, _, _, _, _, _)
MissingMethods(st, doc, src, c, methods, k) ==
  IF st.thrown \/ k > Len(methods) THEN st
  ELSE MissingMethods(MissingMethod(st, doc, src, c, methods[k]), doc, src, c, methods, k + 1)

\* the body of the loop over the classes of the sources
MissingClass(st, doc, src, c) ==
  IF ~doc[c].present THEN PushError(st, MissingMessage(c))
  ELSE MissingMethods(st, doc, src, c,
                      SeqOf({m \in DOMAIN src[c].methods : src[c].methods[m].present},
                            MemberOrder), 1)

RECURSIVE MissingLoop(_, _, _, _, _)
\* for (const [className, methods] of apiMethods) { ... }
MissingLoop(st, doc, src, classes, k) ==
  IF st.thrown \/ k > Len(classes) THEN st
  ELSE MissingLoop(MissingClass(st, doc, src, classes[k]), doc, src, classes, k + 1)

RECURSIVE NotFoundParams(_, _, _, _, _)
\* for (const paramName of memberParams) if (!params.has(paramName)) ...
NotFoundParams(st, path, memberParams, params, k) ==
  IF k > Len(memberParams) THEN st
  ELSE NotFoundParams(IF memberParams[k] \in params THEN st
                      ELSE PushError(st, NotFoundIsMessage(path \o "." \o memberParams[k])),
                      path, memberParams, params, k + 1)

\* the body of the loop over the members of a documented class
NotFoundMember(st, doc, src, c, m) ==
  IF doc[c].members[m].kind = "event" THEN st
  ELSE IF ~src[c].methods[m].present
  THEN PushError(st, NotFoundIsMessage(c \o "." \o m))
  ELSE NotFoundParams(st, c \o "." \o m,
                      SeqOf(ParamsForMember(doc[c].members[m]).names, ParamOrder),
                      src[c].methods[m].params, 1)

RECURSIVE NotFoundMembers(_, _, _, _, _, _)
NotFoundMembers(st, doc, src, c, members, k) ==
  IF k > Len(members) THEN st
  ELSE NotFoundMembers(NotFoundMember(st, doc, src, c, members[k]), doc, src, c, members, k + 1)

\* the body of the loop over the documented classes
NotFoundClass(st, doc, src, c) ==
  IF ~src[c].present THEN PushError(st, NotFoundInMessage(c))
  ELSE NotFoundMembers(st, doc, src, c,
                       SeqOf({m \in DOMAIN doc[c].members : doc[c].members[m].kind # "none"},
                             MemberOrder), 1)

RECURSIVE NotFoundLoop(_, _, _, _, _)
\* for (const cls of documentation.classesArray) { ... }
NotFoundLoop(st, doc, src, classes, k) ==
  IF st.thrown \/ k > Len(classes) THEN st
  ELSE NotFoundLoop(NotFoundClass(st, doc, src, classes[k]), doc, src, classes, k + 1)

\* lint: [errors, thrown]
Lint(doc, src) ==
  NotFoundLoop(MissingLoop([errors |-> <<>>, thrown |-> FALSE], doc, src,
                           SeqOf({c \in DOMAIN src : src[c].present}, ClassOrder), 1),
               doc, src, SeqOf({c \in DOMAIN doc : doc[c].present}, ClassOrder), 1)

\* ------------------------------------------------------------------------
\* State.  Each specification below runs one operation of parse_md.js and
\* leaves the variables of the others idle.

\* parseMd and renderMd.  origin is a history variable: origin[n] is the index
\* in lines of the logical line that node n of ps was made from (0: the root).
VARIABLES content, pc, lines, i, ps, origin, columns, rendered, ps2

\* printText: the text and width given, the local `line`, and result
VARIABLES wtext, wcols, wline, wresult, wpc

\* parseArgument: the line given and what the call ended with
VARIABLES aline, aresult, apc

\* clone: the heap, the node cloned, its structure before (history), the
\* copies made, those written to since (history), and the writes counted
VARIABLES cheap, cnode, csnap, ccopies, ctouched, cwrites

\* applyTemplates: the heap before the call, body and params, and the pass
\* as the call left it (the heap after, and err)
VARIABLES theap, tbody, tparams, tresult, tpc

\* lint: the documentation model, the inventory of the sources, and what the
\* call ended with
VARIABLES ldoc, lsrc, lresult, lpc

parseVars == <<content, pc, lines, i, ps, origin, columns, rendered, ps2>>
wrapVars == <<wtext, wcols, wline, wresult, wpc>>
argVars == <<aline, aresult, apc>>
cloneVars == <<cheap, cnode, csnap, ccopies, ctouched, cwrites>>
tplVars == <<theap, tbody, tparams, tresult, tpc>>
lintVars == <<ldoc, lsrc, lresult, lpc>>
vars == <<parseVars, wrapVars, argVars, cloneVars, tplVars, lintVars>>

NoBuild == [StartBuild(EmptyHeap) EXCEPT !.nodes = <<>>, !.root = 0, !.stack = <<>>]
NoPass == [nodes |-> <<>>, arrs |-> <<>>, err |-> ""]

ParseIdle ==
  /\ content = "" /\ pc = "off" /\ lines = <<>> /\ i = 0 /\ ps = NoBuild
  /\ origin = <<>> /\ columns = <<>> /\ rendered = "" /\ ps2 = NoBuild

WrapIdle == wtext = "" /\ wcols = 0 /\ wline = "" /\ wresult = <<>> /\ wpc = "off"

ArgIdle == aline = "" /\ aresult = ArgError("") /\ apc = "off"

CloneIdle ==
  /\ cheap = EmptyHeap /\ cnode = 0 /\ csnap = <<>> /\ ccopies = <<>>
  /\ ctouched = {} /\ cwrites = 0

TplIdle ==
  theap = EmptyHeap /\ tbody = <<>> /\ tparams = <<>> /\ tresult = NoPass /\ tpc = "off"

NoLint == [errors |-> <<>>, thrown |-> FALSE]

LintIdle == ldoc = <<>> /\ lsrc = <<>> /\ lresult = NoLint /\ lpc = "off"

SeqsUpTo(S, n) == UNION {[1..k -> S] : k \in 0..n}

Range(f) == {f[k] : k \in DOMAIN f}

\* ------------------------------------------------------------------------
\* Specification SpecParse: parseMd on a document, line by line, then
\* renderMd on the forest and parseMd on what it printed.

MaxLines == 4
SmallColumns == 3

ParseLines ==
  {"# A", "## B", "### C", "- a", "  - b", "    - c", "t", "> q",
   Fence, GenMarker, ""}

ParseInputs == {Join(ls, "\n") : ls \in SeqsUpTo(ParseLines, MaxLines)}

\* documents of headers only, long enough to close two levels and reopen
MaxHeaderLines == 5

HeaderInputs == {Join(ls, "\n") : ls \in SeqsUpTo({"# A", "## B", "### C"}, MaxHeaderLines)}

\* documents of one header and the lines of a list under it: the three
\* markers, even and odd indentations, a paragraph, a fence
MaxListLines == 4

ListLines ==
  {"- a", "  - b", "    - c", " - d", "   - e", "  * f", "  1. g", "t", Fence}

ListInputs == {"# A\n" \o Join(ls, "\n") : ls \in SeqsUpTo(ListLines, MaxListLines)}

ParseInit ==
  /\ content \in ParseInputs \cup HeaderInputs \cup ListInputs
  /\ pc = "start"
  /\ lines = <<>>
  /\ i = 0
  /\ ps = NoBuild
  /\ origin = <<>>
  /\ columns = <<>>
  /\ rendered = ""
  /\ ps2 = NoBuild

\* parseMd: normalizeLines(content), and buildTree up to its loop
Normalize ==
  /\ pc = "start"
  /\ lines' = NormalizeLines(content)
  /\ ps' = StartBuild(EmptyHeap)
  /\ origin' = <<0>>
  /\ i' = 1
  /\ pc' = "build"
  /\ UNCHANGED <<content, columns, rendered, ps2>>
  /\ UNCHANGED <<wrapVars, argVars, cloneVars, tplVars, lintVars>>

\* buildTree: one logical line
BuildLine ==
  /\ pc = "build"
  /\ i <= Len(lines)
  /\ ps' = BuildStep(ps, lines[i])
  /\ origin' = IF Len(ps'.nodes) > Len(ps.nodes) THEN Append(origin, i) ELSE origin
  /\ i' = i + 1
  /\ pc' = IF ps'.err THEN "failed" ELSE "build"
  /\ UNCHANGED <<content, lines, columns, rendered, ps2>>
  /\ UNCHANGED <<wrapVars, argVars, cloneVars, tplVars, lintVars>>

\* buildTree: the lines are used up
BuildReturn ==
  /\ pc = "build"
  /\ i > Len(lines)
  /\ ps' = BuildEnd(ps)
  /\ pc' = IF ps'.err THEN "failed" ELSE "parsed"
  /\ UNCHANGED <<content, lines, i, origin, columns, rendered, ps2>>
  /\ UNCHANGED <<wrapVars, argVars, cloneVars, tplVars, lintVars>>

\* renderMd(forest, maxColumns), and parseMd of the text it returns
RoundTrip ==
  /\ pc = "parsed"
  /\ \E c \in {<<>>, <<SmallColumns>>} :
       /\ columns' = c
       /\ rendered' = RenderMd(ps, ps.nodes[ps.root].kids, c)
  /\ ps2' = ParseMd([nodes |-> ps.nodes, arrs |-> ps.arrs], rendered')
  /\ pc' = "reparsed"
  /\ UNCHANGED <<content, lines, i, ps, origin>>
  /\ UNCHANGED <<wrapVars, argVars, cloneVars, tplVars, lintVars>>

ParseNext == Normalize \/ BuildLine \/ BuildReturn \/ RoundTrip

ParseStart == ParseInit /\ WrapIdle /\ ArgIdle /\ CloneIdle /\ TplIdle /\ LintIdle

SpecParse == ParseStart /\ [][ParseNext]_vars

\* ------------------------------------------------------------------------
\* Specification SpecWrap: printText on one text, one turn of its loop at a
\* time.

MaxText == 7
MaxWidth == 3

WrapTexts == {Join(cs, "") : cs \in SeqsUpTo({"a", " "}, MaxText)}

WrapInit ==
  /\ wtext \in WrapTexts
  /\ wcols \in 1..MaxWidth
  /\ wline = wtext
  /\ wresult = <<>>
  /\ wpc = "loop"

\* a turn of the while loop that breaks the line
WrapBreak ==
  /\ wpc = "loop"
  /\ Len(wline) > wcols
  /\ WrapIndex(wline, wcols) # -1
  /\ wresult' = Append(wresult, Substring(wline, 0, WrapIndex(wline, wcols)))
  /\ wline' = SubstringFrom(wline, WrapIndex(wline, wcols) + 1)
  /\ UNCHANGED <<wtext, wcols, wpc>>
  /\ UNCHANGED <<parseVars, argVars, cloneVars, tplVars, lintVars>>

\* the loop ends (its condition fails, or break) and what is left is printed
WrapEnd ==
  /\ wpc = "loop"
  /\ ~(Len(wline) > wcols /\ WrapIndex(wline, wcols) # -1)
  /\ wresult' = IF Len(wline) > 0 THEN Append(wresult, wline) ELSE wresult
  /\ wpc' = "done"
  /\ UNCHANGED <<wtext, wcols, wline>>
  /\ UNCHANGED <<parseVars, argVars, cloneVars, tplVars, lintVars>>

WrapNext == WrapBreak \/ WrapEnd

WrapStart == WrapInit /\ ParseIdle /\ ArgIdle /\ CloneIdle /\ TplIdle /\ LintIdle

SpecWrap == WrapStart /\ [][WrapNext]_vars

\* a call of printText that has begun runs on: its loop is not suspended
SpecWrapFair == SpecWrap /\ WF_vars(WrapNext)

\* ------------------------------------------------------------------------
\* Specification SpecArg: parseArgument on one line.

MaxRemainder == 4

ArgPrefixes ==
  {BT \o "n" \o BT \o " ", "returns: ", "type: ",
   BT \o BT \o " ", BT \o "n" \o BT, "returns:", "n: ", ""}

ArgInputs ==
  {p \o Join(cs, "") : p \in ArgPrefixes, cs \in SeqsUpTo({"<", ">", "a", " "}, MaxRemainder)}

ArgInit ==
  /\ aline \in ArgInputs
  /\ aresult = ArgError("")
  /\ apc = "call"

\* parseArgument(line), returning or throwing
ParseArg ==
  /\ apc = "call"
  /\ aresult' = ParseArgument(aline)
  /\ apc' = IF aresult'.err = "" THEN "returned" ELSE "thrown"
  /\ UNCHANGED aline
  /\ UNCHANGED <<parseVars, wrapVars, cloneVars, tplVars, lintVars>>

ArgNext == ParseArg

ArgStart == ArgInit /\ ParseIdle /\ WrapIdle /\ CloneIdle /\ TplIdle /\ LintIdle

SpecArg == ArgStart /\ [][ArgNext]_vars

\* ------------------------------------------------------------------------
\* Specification SpecClone: clone on a node of a parsed document, and then
\* what a caller may do to a copy: write a field of the copy or of a node
\* under it, push onto its children, push onto its lines.

MaxClones == 2
MaxWrites == 2

CloneDocs ==
  {"# A\n- a\n  - b\n" \o Fence \o "js\nx\n" \o Fence,
   "# A\n" \o GenMarker \o "\n" \o GenMarker \o "\n## B",
   "# A\nt\n- a"}

RECURSIVE Under(_, _)
\* node id and the nodes below it
Under(heap, id) ==
  {id} \cup UNION {Under(heap, heap.nodes[id].kids[k]) : k \in 1..Len(heap.nodes[id].kids)}

CloneInit ==
  /\ \E doc \in CloneDocs :
       LET built == ParseMd(EmptyHeap, doc)
       IN /\ cheap = [nodes |-> built.nodes, arrs |-> built.arrs]
          /\ cnode \in 2..Len(built.nodes)
  /\ csnap = Tree(cheap, cnode)
  /\ ccopies = <<>>
  /\ ctouched = {}
  /\ cwrites = 0

\* copy = clone(node)
CloneNode ==
  /\ Len(ccopies) < MaxClones
  /\ LET made == Clone(cheap, cnode)
     IN cheap' = made.heap /\ ccopies' = Append(ccopies, made.id)
  /\ UNCHANGED <<cnode, csnap, ctouched, cwrites>>
  /\ UNCHANGED <<parseVars, wrapVars, argVars, tplVars, lintVars>>

\* n.text = 'z', n the copy or a node under it
WriteText ==
  /\ cwrites < MaxWrites
  /\ \E k \in 1..Len(ccopies) : \E n \in Under(cheap, ccopies[k]) :
       /\ cheap' = [cheap EXCEPT !.nodes[n].text = "z"]
       /\ ctouched' = ctouched \cup {ccopies[k]}
  /\ cwrites' = cwrites + 1
  /\ UNCHANGED <<cnode, csnap, ccopies>>
  /\ UNCHANGED <<parseVars, wrapVars, argVars, tplVars, lintVars>>

\* n.children.push({ type: 'text', text: 'z' })
PushNode ==
  /\ cwrites < MaxWrites
  /\ \E k \in 1..Len(ccopies) : \E n \in Under(cheap, ccopies[k]) :
       /\ cheap.nodes[n].hasKids
       /\ cheap' = [cheap EXCEPT
                      !.nodes = PushChild(Append(cheap.nodes, MkNode("text", "z", FALSE, "", "", 0)),
                                          n, Len(cheap.nodes) + 1)]
       /\ ctouched' = ctouched \cup {ccopies[k]}
  /\ cwrites' = cwrites + 1
  /\ UNCHANGED <<cnode, csnap, ccopies>>
  /\ UNCHANGED <<parseVars, wrapVars, argVars, tplVars, lintVars>>

\* n.lines.push('z')
PushLine ==
  /\ cwrites < MaxWrites
  /\ \E k \in 1..Len(ccopies) : \E n \in Under(cheap, ccopies[k]) :
       /\ cheap.nodes[n].lines # 0
       /\ cheap' = [cheap EXCEPT !.arrs[cheap.nodes[n].lines] = Append(@, "z")]
       /\ ctouched' = ctouched \cup {ccopies[k]}
  /\ cwrites' = cwrites + 1
  /\ UNCHANGED <<cnode, csnap, ccopies>>
  /\ UNCHANGED <<parseVars, wrapVars, argVars, tplVars, lintVars>>

CloneNext == CloneNode \/ WriteText \/ PushNode \/ PushLine

CloneStart == CloneInit /\ ParseIdle /\ WrapIdle /\ ArgIdle /\ TplIdle /\ LintIdle

SpecClone == CloneStart /\ [][CloneNext]_vars

\* ------------------------------------------------------------------------
\* Specification SpecTemplates: applyTemplates on a parsed body and parsed
\* params.  body is a parsed forest or the children of its first header;
\* params is a parsed forest.

MaxBodyLines == 3

ParamDocs ==
  {"# opts\n- %%-refA-%%\n- %%-refB-%%\n# refA\n- " \o BT \o "x" \o BT
     \o " <string>d\n  - sub\n# refB\n- " \o BT \o "y" \o BT \o " <number>d",
   "# opts\n- %%-refA-%%\n- %%-refC-%%\n# refA\n- " \o BT \o "x" \o BT \o " <string>d"}

BodyLines ==
  {"# H", "# foo-inline- = %%-opts-%%", "## foo-inline- = %%-opts-%%",
   "- foo-inline- = %%-opts-%%", "- foo-inline- = %%-none-%%",
   "## bar = %%-refA-%%", "- bar = %%-refA-%%", "- baz = %%-none-%%",
   "- p", "  - q"}

BodyInputs == {Join(ls, "\n") : ls \in SeqsUpTo(BodyLines, MaxBodyLines)}

TplWith(par, bod) ==
  /\ ~bod.err
  /\ theap = [nodes |-> bod.nodes, arrs |-> bod.arrs]
  /\ tparams = par.nodes[par.root].kids
  /\ tbody \in {bod.nodes[bod.root].kids}
                 \cup {bod.nodes[bod.nodes[bod.root].kids[1]].kids :
                         k \in {1} \cap DOMAIN bod.nodes[bod.root].kids}

TplFrom(par, bdoc) == TplWith(par, ParseMd([nodes |-> par.nodes, arrs |-> par.arrs], bdoc))

TplInit ==
  /\ \E pdoc \in ParamDocs, bdoc \in BodyInputs : TplFrom(ParseMd(EmptyHeap, pdoc), bdoc)
  /\ tresult = NoPass
  /\ tpc = "call"

\* applyTemplates(body, params), returning or throwing
Expand ==
  /\ tpc = "call"
  /\ tresult' = ApplyTemplates(theap, tbody, tparams)
  /\ tpc' = IF tresult'.err = "" THEN "returned" ELSE "thrown"
  /\ UNCHANGED <<theap, tbody, tparams>>
  /\ UNCHANGED <<parseVars, wrapVars, argVars, cloneVars, lintVars>>

TplNext == Expand

TplStart == TplInit /\ ParseIdle /\ WrapIdle /\ ArgIdle /\ CloneIdle /\ LintIdle

SpecTemplates == TplStart /\ [][TplNext]_vars

\* ------------------------------------------------------------------------
\* Specification SpecLint: lint on a documentation model and an inventory.
\* Class A has up to two members on either side; class B has none and is
\* there or not on either side.

ClassNames == {"A", "B"}
MemberNames == {"m", "n"}

NoMember == [kind |-> "none", args |-> {}, options |-> FALSE]

DocMembers ==
  {NoMember} \cup [kind : {"method", "property", "event"}, args : SUBSET {"p"},
                   options : BOOLEAN]

NoMethod == [present |-> FALSE, params |-> {}]

SrcMethods == {NoMethod} \cup [present : {TRUE}, params : SUBSET {"p", "options"}]

DocClass(present, members) == [present |-> present, members |-> members]
SrcClass(present, methods) == [present |-> present, methods |-> methods]

DocModels ==
  {[c \in ClassNames |-> IF c = "A" THEN a ELSE b] :
     a \in {DocClass(FALSE, [m \in MemberNames |-> NoMember])}
             \cup {DocClass(TRUE, ms) : ms \in [MemberNames -> DocMembers]},
     b \in {DocClass(p, [m \in MemberNames |-> NoMember]) : p \in BOOLEAN}}

Inventories ==
  {[c \in ClassNames |-> IF c = "A" THEN a ELSE b] :
     a \in {SrcClass(FALSE, [m \in MemberNames |-> NoMethod])}
             \cup {SrcClass(TRUE, ms) : ms \in [MemberNames -> SrcMethods]},
     b \in {SrcClass(p, [m \in MemberNames |-> NoMethod]) : p \in BOOLEAN}}

LintInit ==
  /\ ldoc \in DocModels
  /\ lsrc \in Inventories
  /\ lresult = NoLint
  /\ lpc = "call"

\* lint(api, jsSources, apiFileName), returning the messages or throwing
LintCall ==
  /\ lpc = "call"
  /\ lresult' = Lint(ldoc, lsrc)
  /\ lpc' = IF lresult'.thrown THEN "thrown" ELSE "returned"
  /\ UNCHANGED <<ldoc, lsrc>>
  /\ UNCHANGED <<parseVars, wrapVars, argVars, cloneVars, tplVars>>

LintNext == LintCall

LintStart == LintInit /\ ParseIdle /\ WrapIdle /\ ArgIdle /\ CloneIdle /\ TplIdle

SpecLint == LintStart /\ [][LintNext]_vars

\* ------------------------------------------------------------------------
\* What the claims about the parse speak of.

\* ps holds a scan (begun, ended or thrown)
Scanning == pc \in {"build", "failed", "parsed", "reparsed"}

IsHeader(node) == StartsWith(node.type, "h")

\* the nodes of ps other than the root
Made == 2..Len(ps.nodes)

\* the node whose children hold n
Parent(n) == CHOOSE q \in 1..Len(ps.nodes) : n \in Range(ps.nodes[q].kids)

\* the header, the root included, made last before node n
HeaderBefore(n) == Max({m \in 1..(n - 1) : IsHeader(ps.nodes[m])})

\* the nesting depth the indentation of node n's line gives it
LineDepth(n) ==
  IF ps.nodes[n].type = "li" THEN LeadingWs(lines[origin[n]]) \div 2 ELSE 0

\* the paragraphs of the forest fit the width renderMd is given
NoLongParagraph ==
  \A n \in Made :
    ps.nodes[n].type = "text" =>
      Len(ps.nodes[n].text) <= (IF columns = <<>> THEN DefaultMaxColumns ELSE columns[1])

\* C1: re-parsing what renderMd printed of a parsed document whose paragraphs
\* fit the width gives a forest of the same kinds, text and nesting.
C1_RoundTrip ==
  (pc = "reparsed" /\ NoLongParagraph) =>
    /\ ~ps2.err
    /\ Forest(ps2, ps2.nodes[ps2.root].kids) = Forest(ps, ps.nodes[ps.root].kids)

\* C2: at every point of the scan the header stack has the root at its bottom
\* and strictly deeper headers above it, each the last child of the one
\* below; and every header is a child of the nearest header before it that is
\* less deep and that no header in between has closed (the root when there is
\* no such header).
C2_HeaderStack ==
  Scanning =>
    /\ ps.stack # <<>>
    /\ ps.stack[Len(ps.stack)] = ps.root
    /\ \A k \in 1..(Len(ps.stack) - 1) :
         /\ HeaderDepth(ps.nodes[ps.stack[k]]) > HeaderDepth(ps.nodes[ps.stack[k + 1]])
         /\ LET kids == ps.nodes[ps.stack[k + 1]].kids
            IN kids # <<>> /\ kids[Len(kids)] = ps.stack[k]
    /\ \A n \in Made :
         IsHeader(ps.nodes[n]) =>
           LET open == {m \in 1..(n - 1) :
                          /\ IsHeader(ps.nodes[m])
                          /\ HeaderDepth(ps.nodes[m]) < HeaderDepth(ps.nodes[n])
                          /\ \A j \in (m + 1)..(n - 1) :
                               IsHeader(ps.nodes[j]) =>
                                 HeaderDepth(ps.nodes[j]) > HeaderDepth(ps.nodes[m])}
           IN Parent(n) = Max(open)

\* C2's case: a header was closed by a later one and two headers are open
C2_Witness ==
  /\ Scanning
  /\ Len(ps.stack) >= 3
  /\ \E n \in Made : IsHeader(ps.nodes[n]) /\ n \notin Range(ps.stack)

\* C3: under a header followed by list items only, an item at depth 0 is a
\* child of the header and an item at depth d+1 a child of the last item at
\* depth d before it; and a list item or text line is never attached to a
\* node made before the header that is open when it is scanned.
C3_ListNesting ==
  Scanning =>
    \A n \in Made :
      ps.nodes[n].type \in {"li", "text"} =>
        /\ Parent(n) >= HeaderBefore(n)
        /\ (\A m \in (HeaderBefore(n) + 1)..n : ps.nodes[m].type = "li") =>
             IF LineDepth(n) = 0 THEN Parent(n) = HeaderBefore(n)
             ELSE Parent(n) = Max({m \in (HeaderBefore(n) + 1)..(n - 1) :
                                     LineDepth(m) = LineDepth(n) - 1})

\* C3's case: under a second header, an item at depth 1 follows one at depth 0
C3_Witness ==
  /\ Scanning
  /\ \E n \in Made :
       /\ ps.nodes[n].type = "li"
       /\ LineDepth(n) = 1
       /\ ps.nodes[Parent(n)].type = "li"
       /\ HeaderBefore(n) > 2

\* C4: no text node of a parsed forest has children.
C4_TextLeaf ==
  pc = "parsed" => \A n \in Made : ps.nodes[n].type = "text" => ps.nodes[n].kids = <<>>

\* ------------------------------------------------------------------------
\* What the claims about applyTemplates speak of.

\* the call has ended
Expanded == tpc \in {"returned", "thrown"}

\* the nodes of the body before the call
BodyNodes == UNION {Under(theap, tbody[k]) : k \in 1..Len(tbody)}

\* the node of params under a key, before the call (0: none)
Param(key) == ParamsGet(theap, tparams, key)

\* the key a trigger names
FanOutKey(n) == Split(theap.nodes[n].text, FanOutSep)[2]
SubstKey(n) == Split(theap.nodes[n].text, SubstSep)[2]

\* the templates the list of fan-out trigger n names, 0 for a key not held
Templates(n) ==
  [k \in 1..Len(theap.nodes[Param(FanOutKey(n))].kids) |->
     Param(theap.nodes[theap.nodes[Param(FanOutKey(n))].kids[k]].text)]

\* fan-out trigger n names a list each child of which names a template
\* whose first child parseArgument reads
ResolvedFanOut(n) ==
  /\ Param(FanOutKey(n)) # 0
  /\ \A k \in DOMAIN Templates(n) :
       /\ Templates(n)[k] # 0
       /\ theap.nodes[Templates(n)[k]].kids # <<>>
       /\ ParseArgument(theap.nodes[theap.nodes[Templates(n)[k]].kids[1]].text).err = ""

\* node n carries a trigger with a key that params does not hold
Unresolved(n) ==
  \/ /\ IsFanOut(theap.nodes[n])
     /\ \/ Param(FanOutKey(n)) = 0
        \/ \E k \in DOMAIN Templates(n) : Templates(n)[k] = 0
  \/ IsSubst(theap.nodes[n]) /\ Param(SubstKey(n)) = 0

\* what fan-out trigger n is to add to the list that holds it
Gained(n) ==
  [k \in DOMAIN Templates(n) |->
     [type |-> theap.nodes[n].type,
      text |-> Split(theap.nodes[n].text, FanOutSep)[1]
                 \o ParseArgument(theap.nodes[theap.nodes[Templates(n)[k]].kids[1]].text).name,
      liType |-> "", codeLang |-> "", lines |-> <<>>,
      children |-> Forest(theap, theap.nodes[Templates(n)[k]].kids)]]

RECURSIVE GainedAll(_)
GainedAll(ks) ==
  IF ks = <<>> THEN <<>>
  ELSE (IF IsFanOut(theap.nodes[Head(ks)]) THEN Gained(Head(ks)) ELSE <<>>)
         \o GainedAll(Tail(ks))

RECURSIVE Kept(_)
Kept(ks) ==
  IF ks = <<>> THEN <<>>
  ELSE (IF IsFanOut(theap.nodes[Head(ks)]) THEN <<>> ELSE <<Head(ks)>>) \o Kept(Tail(ks))

\* a child list of the body: that of node p, or the body itself (p = 0),
\* before the call and after it
ListBefore(p) == IF p = 0 THEN tbody ELSE theap.nodes[p].kids
ListAfter(p) == IF p = 0 THEN tbody ELSE tresult.nodes[p].kids

\* C5: when the triggers of the body are fan-out triggers that resolve, the
\* call returns, and every child list that held a trigger, the body itself
\* included, then holds the nodes it held that are not triggers, in their
\* order, followed by one node per template of each trigger, in order, of the
\* trigger's type, named by the prefix and the parsed name, with a copy of the
\* template's children.
C5_FanOut ==
  (/\ Expanded
   /\ \A n \in BodyNodes :
        /\ ~IsSubst(theap.nodes[n])
        /\ IsFanOut(theap.nodes[n]) => ResolvedFanOut(n))
  => /\ tpc = "returned"
     /\ \A p \in BodyNodes \cup {0} :
          (\E k \in DOMAIN ListBefore(p) : IsFanOut(theap.nodes[ListBefore(p)[k]])) =>
            /\ Len(ListAfter(p)) = Len(Kept(ListBefore(p))) + Len(GainedAll(ListBefore(p)))
            /\ SubSeq(ListAfter(p), 1, Len(Kept(ListBefore(p)))) = Kept(ListBefore(p))
            /\ Forest(tresult, SubSeq(ListAfter(p), Len(Kept(ListBefore(p))) + 1,
                                      Len(ListAfter(p))))
                 = GainedAll(ListBefore(p))

\* C6: when the triggers of the body are substitutions whose key params
\* holds, the call returns, and every such node is then named by the name
\* alone and holds the children it held followed by a copy of the template's
\* children.
C6_Substitution ==
  (/\ Expanded
   /\ \A n \in BodyNodes :
        /\ ~IsFanOut(theap.nodes[n])
        /\ IsSubst(theap.nodes[n]) => Param(SubstKey(n)) # 0)
  => /\ tpc = "returned"
     /\ \A n \in BodyNodes :
          IsSubst(theap.nodes[n]) =>
            /\ tresult.nodes[n].text = Split(theap.nodes[n].text, SubstSep)[1]
            /\ Len(tresult.nodes[n].kids)
                 = Len(theap.nodes[n].kids) + Len(theap.nodes[Param(SubstKey(n))].kids)
            /\ SubSeq(tresult.nodes[n].kids, 1, Len(theap.nodes[n].kids)) = theap.nodes[n].kids
            /\ Forest(tresult, SubSeq(tresult.nodes[n].kids, Len(theap.nodes[n].kids) + 1,
                                      Len(tresult.nodes[n].kids)))
                 = Forest(theap, theap.nodes[Param(SubstKey(n))].kids)

\* C7: when a node of the body carries a trigger with a key that params does
\* not hold (the key of the list, a key listed under the list, or the key of
\* a substitution), the call throws and returns nothing.
C7_UnresolvedRaises ==
  (Expanded /\ \E n \in BodyNodes : Unresolved(n)) => (tpc = "thrown" /\ tresult.err # "")

\* C7's case: the call threw on a key listed under a list that params holds
C7_Witness ==
  /\ tpc = "thrown"
  /\ tresult.err = "Bad template"
  /\ \E n \in BodyNodes :
       /\ IsFanOut(theap.nodes[n])
       /\ Param(FanOutKey(n)) # 0
       /\ \E k \in DOMAIN Templates(n) : Templates(n)[k] = 0

\* ------------------------------------------------------------------------
\* What the claim about clone speaks of.

\* C8: whatever is written to a copy or below it, the node cloned stays as
\* it was, and so does every other copy that was not written to.
C8_CloneIndependent ==
  ccopies # <<>> =>
    /\ Tree(cheap, cnode) = csnap
    /\ \A k \in DOMAIN ccopies :
         ccopies[k] \notin ctouched => Tree(cheap, ccopies[k]) = csnap

\* ------------------------------------------------------------------------
\* What the claim about printText speaks of.

\* the words of a string: what the spaces separate
Tokens(s) == SelectSeq(Split(s, " "), LAMBDA w : w # "")

RECURSIVE TokensOf(_)
\* the words of the lines, in order
TokensOf(ls) == IF ls = <<>> THEN <<>> ELSE Tokens(Head(ls)) \o TokensOf(Tail(ls))

\* every line printed fits the width or holds no space
WrapBound ==
  \A k \in DOMAIN wresult : Len(wresult[k]) <= wcols \/ ~Includes(wresult[k], " ")

\* the words printed and those left to print are the words of the text
WrapWhole ==
  (wpc = "loop" => Tokens(wtext) = TokensOf(wresult) \o Tokens(wline))
    /\ (wpc = "done" => Tokens(wtext) = TokensOf(wresult))

\* C9: for a width of 1 or more the loop of printText ends, every line it
\* prints fits the width or holds no space, and the words of the lines
\* printed are the words of the text: no word is cut.
C9_WordWrap == [](WrapBound /\ WrapWhole) /\ <>(wpc = "done")

\* C9's case: a text printed on several lines, one of them a word too long
C9_Witness ==
  /\ wpc = "done"
  /\ Len(wresult) >= 3
  /\ \E k \in DOMAIN wresult : Len(wresult[k]) > wcols

\* ------------------------------------------------------------------------
\* What the claim about parseArgument speaks of.

\* how many c the string holds up to index j
Count(s, c, j) == Cardinality({k \in 0..j : CharAt(s, k) = c})

\* the indices at which as many brackets are closed as were opened
Balanced(s) == {j \in 0..(Len(s) - 1) : Count(s, "<", j) = Count(s, ">", j)}

\* C10: a line without a prefix, one whose remainder does not begin with
\* '<', and one whose brackets never balance, make parseArgument throw; of
\* any other line the type returned is the text between the first '<' and
\* the '>' that balances it, and the text what follows that '>' and one more
\* character.
C10_Brackets ==
  apc \in {"returned", "thrown"} =>
    IF ArgMatch(aline) = <<>> THEN apc = "thrown"
    ELSE IF ~StartsWith(ArgMatch(aline)[2], "<") THEN apc = "thrown"
    ELSE IF Balanced(ArgMatch(aline)[2]) = {} THEN apc = "thrown"
    ELSE /\ apc = "returned"
         /\ aresult.name = ArgMatch(aline)[1]
         /\ aresult.type = Substring(ArgMatch(aline)[2], 1, Min(Balanced(ArgMatch(aline)[2])))
         /\ aresult.text = SubstringFrom(ArgMatch(aline)[2],
                                         Min(Balanced(ArgMatch(aline)[2])) + 2)

\* C10's case: a type with brackets inside it, returned whole
C10_Witness ==
  /\ apc = "returned"
  /\ Includes(aresult.type, "<")
  /\ Includes(aresult.type, ">")

\* ------------------------------------------------------------------------
\* What the claims about the raw lines speak of.

\* the lines of the text given to parseMd
RawLines == Split(Join(Split(content, "\r\n"), "\n"), "\n")

\* the raw lines that begin with the generator marker, with the code fence
Markers == {k \in DOMAIN RawLines : StartsWith(RawLines[k], GenMarker)}
Fences == {k \in DOMAIN RawLines : StartsWith(RawLines[k], Fence)}

\* C11: of a parsed text without code fences that holds two marker lines,
\* the forest holds a generator node whose lines are the raw lines from the
\* first marker line to the next, each as it was given.
C11_GenVerbatim ==
  (pc = "parsed" /\ Fences = {} /\ Cardinality(Markers) >= 2) =>
    \E n \in Made :
      /\ ps.nodes[n].type = "gen"
      /\ ps.arrs[ps.nodes[n].lines]
           = SubSeq(RawLines, Min(Markers), Min(Markers \ {Min(Markers)}))

\* the logical line at which the scan threw
FaultLine == lines[i - 1]

\* the scan threw at a list item or a text line for want of a list context:
\* no header was opened yet, or the list context has no entry at the depth
\* of the item
NestingViolation ==
  /\ pc = "failed"
  /\ ps.mode = "top"
  /\ \/ ps.liNull
     \/ /\ ListMarker(FaultLine) > 0
        /\ LeadingWs(FaultLine) % 2 = 0
        /\ LeadingWs(FaultLine) \div 2 >= Len(ps.liStack)

\* C12: a list item or text line met before any header, and a list item at
\* a depth the list context has no entry for, end the parse with an error of
\* its own making, not with the TypeError of a read of null or undefined.
C12_ExplicitError == NestingViolation => Thrown(ps) \notin {"", "TypeError"}

\* ------------------------------------------------------------------------
\* What the claim about the header example speaks of.

\* the depths of the logical lines as headers (0: not a header line)
LineHeaderDepths == [k \in DOMAIN lines |-> LeadingHashes(lines[k])]

\* the document of the example was parsed
HeaderExample == pc = "parsed" /\ LineHeaderDepths = <<1, 2, 3, 2, 1>>

RECURSIVE DepthTree(_)
\* header n of ps as its depth and the depth trees of its children
DepthTree(n) ==
  [depth |-> HeaderDepth(ps.nodes[n]),
   children |-> [k \in 1..Len(ps.nodes[n].kids) |-> DepthTree(ps.nodes[n].kids[k])]]

DepthForest == DepthTree(ps.root).children

DepthNode(d, children) == [depth |-> d, children |-> children]

\* C13: header lines of depths 1, 2, 3, 2, 1 give two depth-1 nodes; the
\* first has two depth-2 children, the first of them with one depth-3 child
\* and the second with none; the second depth-1 node has no children.
C13_HeaderExample ==
  HeaderExample =>
    DepthForest = <<DepthNode(1, <<DepthNode(2, <<DepthNode(3, <<>>)>>), DepthNode(2, <<>>)>>),
                    DepthNode(1, <<>>)>>

\* C13's case: the five header lines were parsed
C13_Witness == HeaderExample /\ Len(ps.nodes) = 6

\* C13 as the specification words it: the first depth-1 node has one depth-2
\* child with one depth-3 child, the second has one depth-2 child without
\* children.
C13_AsStated ==
  HeaderExample =>
    DepthForest = <<DepthNode(1, <<DepthNode(2, <<DepthNode(3, <<>>)>>)>>),
                    DepthNode(1, <<DepthNode(2, <<>>)>>)>>

\* ------------------------------------------------------------------------
\* What the claim about lint speaks of.

\* the names documented as parameters of member m of class c
DocParams(c, m) ==
  IF ldoc[c].members[m].kind # "method" THEN {}
  ELSE ldoc[c].members[m].args
         \cup (IF ldoc[c].members[m].options THEN {"options"} ELSE {})

\* the classes and the members on both sides
BothClasses == {c \in ClassNames : ldoc[c].present /\ lsrc[c].present}
BothMembers(c) ==
  {m \in MemberNames : ldoc[c].members[m].kind # "none" /\ lsrc[c].methods[m].present}

\* what the sources hold and the documentation does not
MissingSet ==
  {MissingMessage(c) : c \in {c \in ClassNames : lsrc[c].present /\ ~ldoc[c].present}}
    \cup UNION {{MissingMessage(c \o "." \o m) :
                   m \in {m \in MemberNames : /\ lsrc[c].methods[m].present
                                              /\ ldoc[c].members[m].kind = "none"}} :
                c \in BothClasses}
    \cup UNION {UNION {{MissingMessage(c \o "." \o m \o "." \o p) :
                          p \in lsrc[c].methods[m].params \ DocParams(c, m)} :
                       m \in BothMembers(c)} :
                c \in BothClasses}

\* what the documentation holds, events aside, and the sources do not
NotFoundSet ==
  {NotFoundInMessage(c) : c \in {c \in ClassNames : ldoc[c].present /\ ~lsrc[c].present}}
    \cup UNION {{NotFoundIsMessage(c \o "." \o m) :
                   m \in {m \in MemberNames : /\ ldoc[c].members[m].kind \notin {"none", "event"}
                                              /\ ~lsrc[c].methods[m].present}} :
                c \in BothClasses}
    \cup UNION {UNION {{NotFoundIsMessage(c \o "." \o m \o "." \o p) :
                          p \in DocParams(c, m) \ lsrc[c].methods[m].params} :
                       m \in {m \in BothMembers(c) : ldoc[c].members[m].kind # "event"}} :
                c \in BothClasses}

\* C14: lint returns, and its messages are, each once, the 'Missing
\* documentation' messages of what the sources hold alone followed by the
\* 'Documented ... not found' messages of what the documentation holds alone.
C14_TwoWayDifference ==
  lpc \in {"returned", "thrown"} =>
    /\ lpc = "returned"
    /\ Range(lresult.errors) = MissingSet \cup NotFoundSet
    /\ Len(lresult.errors) = Cardinality(MissingSet \cup NotFoundSet)
    /\ \A j, k \in DOMAIN lresult.errors :
         (j < k /\ lresult.errors[k] \in MissingSet) => lresult.errors[j] \in MissingSet

\* ------------------------------------------------------------------------
\* What the claims about list lines speak of.

\* the scan has just met a list-item line outside a block, under an open
\* header, at a depth (the half of its indentation, rounded down) for which
\* the list context has an entry
ItemScanned ==
  /\ pc \in {"build", "failed"}
  /\ i >= 2
  /\ ps.mode = "top"
  /\ ListMarker(lines[i - 1]) > 0
  /\ ~ps.liNull
  /\ pc = "failed" => LeadingWs(lines[i - 1]) \div 2 < Len(ps.liStack)

\* C15: a list-item line with n leading spaces, n odd or even, under an open
\* header is scanned without error and its item is attached to the entry of
\* the list context at depth n / 2 rounded down.
C15_FloorDepth ==
  ItemScanned =>
    /\ pc = "build"
    /\ origin[Len(ps.nodes)] = i - 1
    /\ Parent(Len(ps.nodes)) = ps.liStack[LeadingWs(lines[i - 1]) \div 2 + 1]

\* the raw lines that are list-marker lines
RawItems == {k \in DOMAIN RawLines : ListMarker(RawLines[k]) > 0}

\* C16: of a text without code fences, every raw list-marker line, whichever
\* of the three markers it has, begins a logical line as it was given, its
\* leading whitespace included.
C16_KeepsIndent ==
  (pc # "start" /\ Fences = {}) =>
    \A k \in RawItems : \E j \in DOMAIN lines : StartsWith(lines[j], RawLines[k])

\* the logical lines that begin with the code fence
FenceLines == {j \in DOMAIN lines : StartsWith(lines[j], Fence)}

\* C17: every raw line that begins with the code fence, opening or closing,
\* is a logical line of its own: there are as many logical fence lines as raw
\* ones, and each is a raw fence line as it was given, with nothing joined.
C17_FencesDistinct ==
  pc # "start" =>
    /\ Cardinality(FenceLines) = Cardinality(Fences)
    /\ \A j \in FenceLines : \E k \in Fences : lines[j] = RawLines[k]

\* ------------------------------------------------------------------------
\* What the claim about document order speaks of.

RECURSIVE PreOrder(_)
RECURSIVE PreOrderAll(_)
\* node n of ps and the nodes below it, depth first, a node before its children
PreOrder(n) == <<n>> \o PreOrderAll(ps.nodes[n].kids)
PreOrderAll(ks) == IF ks = <<>> THEN <<>> ELSE PreOrder(Head(ks)) \o PreOrderAll(Tail(ks))

\* C18: in a parsed forest the children of a node are in the order of their
\* logical lines, and the depth-first walk of the forest, a node before its
\* children, meets the nodes in the order of their logical lines.
C18_DocumentOrder ==
  pc = "parsed" =>
    /\ \A n \in 1..Len(ps.nodes) : \A j, k \in DOMAIN ps.nodes[n].kids :
         j < k => origin[ps.nodes[n].kids[j]] < origin[ps.nodes[n].kids[k]]
    /\ \A j, k \in DOMAIN PreOrder(ps.root) :
         j < k => origin[PreOrder(ps.root)[j]] < origin[PreOrder(ps.root)[k]]

\* ------------------------------------------------------------------------
\* What the claim about the parameter entries speaks of.

\* the nodes reached from params and from the body once the call has ended
ParamNodesAfter == UNION {Under(tresult, tparams[k]) : k \in DOMAIN tparams}
BodyNodesAfter == UNION {Under(tresult, tbody[k]) : k \in DOMAIN tbody}

\* C19: once applyTemplates has returned or thrown, the entries of params
\* and all below them are as they were before the call, and no node reached
\* from the body is a node reached from params.
C19_ParamsUntouched ==
  Expanded =>
    /\ Forest(tresult, tparams) = Forest(theap, tparams)
    /\ ParamNodesAfter \cap BodyNodesAfter = {}

\* C19's case: the call returned having copied template children into the body
C19_Witness ==
  /\ tpc = "returned"
  /\ Len(tresult.nodes) > Len(theap.nodes)
  /\ \E n \in BodyNodes : IsSubst(theap.nodes[n]) \/ IsFanOut(theap.nodes[n])

====
